---------------------------- MODULE Spec2Model ----------------------------
(***************************************************************************)
(* State-machine model of HuenDelivery_Server:                             *)
(*   - DeliveryService (src/src/service/delivery.service.ts, 14-196):      *)
(*     createDelivery, createDeliveries, endDelivery, orderDeliveryRequest *)
(*     run as concurrent asynchronous calls that suspend at every await.   *)
(*   - DriverEventListener.listen (same file, 202-228): authentication of  *)
(*     a socket connection.                                                *)
(* JavaScript values that may be null/undefined are modelled as records,   *)
(* so that null, undefined, a Date and a number are pairwise distinct.     *)
(***************************************************************************)
EXTENDS Integers, Sequences, FiniteSets, TLC

(* ------------------------------ bounds -------------------------------- *)
\* largest reading of the clock (new Date())
MaxTime == 2
\* largest number of rows of the delivery table
MaxDeliveries == 2

\* concurrent service calls in flight
Procs == {"p1", "p2"}
\* image references a request may carry
Images == {"x", "y"}
\* user ids a request may name (4 resolves to no user)
UserIdxs == {1, 2, 3, 4}
\* delivery ids a request may name (3 resolves to no delivery unless
\* createDelivery has inserted a third row)
DeliveryIdxs == {1, 2, 3}
\* longest batch of an orderDeliveryRequest
MaxBatch == 2
\* end-order numbers a batch may carry
OrderNumbers == 1..MaxBatch
\* socket connections
Conns == {"s1", "s2"}
\* bodies of a location report
Bodies == {"here"}

(* ------------------------------ values -------------------------------- *)
Null == [type |-> "null"]
Undefined == [type |-> "undefined"]
\* a Date object holding time t
Date(t) == [time |-> t]
\* a JavaScript string / number held in a nullable field
Str(s) == [str |-> s]
Num(n) == [num |-> n]

\* an HttpError(status, message) thrown by the service
HttpError(st, msg) == [kind |-> "HttpError", status |-> st, message |-> msg]
\* the promise of a call: still pending, or resolved (the call returned);
\* NoResult before the first call
Pending == [kind |-> "pending"]
Resolved == [kind |-> "resolved"]
NoResult == [kind |-> "none"]

\* Role enum
DRIVER == "DRIVER"
CUSTOMER == "CUSTOMER"
\* DeliveryEnum.CREATE_NEW_DELIVERY
CREATE_NEW_DELIVERY == "CREATE_NEW_DELIVERY"

(* --------------------------- collaborators ---------------------------- *)
\* the user table of the identity service (immutable for this core)
UserTable ==
  { [idx |-> 1, role |-> DRIVER], [idx |-> 2, role |-> CUSTOMER],
    [idx |-> 3, role |-> DRIVER] }

\* userService.getUser(idx): the user, or undefined
getUser(idx) ==
  IF \E u \in UserTable : u.idx = idx
  THEN CHOOSE u \in UserTable : u.idx = idx
  ELSE Undefined

\* deliveryRepository.findOne(idx) on table rows: the row, or undefined
findOne(rows, idx) ==
  IF idx \in DOMAIN rows THEN rows[idx] ELSE Undefined

\* deliveryRepository.save(entity) of an entity that has an idx: the row is
\* overwritten by the in-memory entity
saveExisting(rows, entity) ==
  IF entity.idx \in DOMAIN rows
  THEN [rows EXCEPT ![entity.idx] = entity]
  ELSE rows

\* deliveryRepository.save(entity) of a new entity: the row it inserts, with
\* the generated idx and the columns the request does not carry left null
insertedRow(rows, entity) ==
  [entity EXCEPT !.idx = Len(rows) + 1]

\* the template literal `user-${idx}`
UserGroup(idx) ==
  "user-" \o (IF idx = Undefined THEN "undefined" ELSE ToString(idx.num))

(* ------------------------------- state -------------------------------- *)
VARIABLES
  store,    \* the delivery table: row i is the delivery with idx i
  events,   \* what was emitted on namespace 'delivery', in order
  now,      \* the time new Date() reads
  pc,       \* per call: where it is suspended
  args,     \* per call: the operation and its arguments
  local,    \* per call: its local variables
  result,   \* per call: what its promise settled with (Pending in flight)
  sockets,  \* per connection: the socket object
  sink      \* the location reports the handler was invoked with

svcVars == <<store, events, now, pc, args, local, result>>
sockVars == <<sockets, sink>>
vars == <<store, events, now, pc, args, local, result, sockets, sink>>

NoArgs == [op |-> "none"]
NoLocal == [none |-> TRUE]

CanBegin(p) == pc[p] = "idle"

\* a call starts and suspends at its first await, at label
Start(p, label, a, l) ==
  /\ pc' = [pc EXCEPT ![p] = label]
  /\ args' = [args EXCEPT ![p] = a]
  /\ local' = [local EXCEPT ![p] = l]
  /\ result' = [result EXCEPT ![p] = Pending]

\* a call moves on to its next await, at label, with locals l
Goto(p, label, l) ==
  /\ pc' = [pc EXCEPT ![p] = label]
  /\ local' = [local EXCEPT ![p] = l]
  /\ UNCHANGED <<args, result>>

\* a call settles its promise with r (returns, or throws an HttpError)
Finish(p, r) ==
  /\ pc' = [pc EXCEPT ![p] = "idle"]
  /\ args' = [args EXCEPT ![p] = NoArgs]
  /\ local' = [local EXCEPT ![p] = NoLocal]
  /\ result' = [result EXCEPT ![p] = r]

\* time passes
Tick ==
  /\ now < MaxTime
  /\ now' = now + 1
  /\ UNCHANGED <<store, events, pc, args, local, result>>

(* ------------------------- validateUserRole --------------------------- *)
\* validateUserRole throwing 400 only when both roles are wrong
validateUserRole_bothWrong(customerIdx, driverIdx) ==
  LET driver == getUser(driverIdx)
      customer == getUser(customerIdx)
  IN  IF driver = Undefined \/ customer = Undefined
      THEN [error |-> HttpError(404, "no such user")]
      ELSE IF driver.role # DRIVER /\ customer.role # CUSTOMER
      THEN [error |-> HttpError(400, "invalid user assignment")]
      ELSE [driver |-> driver, customer |-> customer]

\* lines 65-81: the error thrown, or the resolved pair
validateUserRole(customerIdx, driverIdx) ==
  LET driver == getUser(driverIdx)
      customer == getUser(customerIdx)
  IN  IF driver = Undefined \/ customer = Undefined
      THEN [error |-> HttpError(404, "no such user")]
      ELSE IF driver.role # DRIVER \/ customer.role # CUSTOMER
      THEN [error |-> HttpError(400, "invalid user assignment")]
      ELSE [driver |-> driver, customer |-> customer]

Threw(r) == "error" \in DOMAIN r

(* --------------------------- createDelivery --------------------------- *)
\* deliveryRepository.create(data) with customer and driver bound (90-92)
newDelivery(customer, driver) ==
  [idx |-> 0, customerIdx |-> customer.idx, driverIdx |-> driver.idx,
   endTime |-> Null, image |-> Null, endOrderNumber |-> Null]

\* the event addressed to the customer's group instead
createGroup_customer(customer, driver) == UserGroup(Num(customer.idx))

\* the group the CREATE_NEW_DELIVERY event is addressed to (96)
createGroup(customer, driver) == UserGroup(Num(driver.idx))

\* the emitted event (96-101)
createEvent(customer, driver, createdDelivery) ==
  [group |-> createGroup(customer, driver), event |-> CREATE_NEW_DELIVERY,
   payload |-> [status |-> 200, data |-> createdDelivery]]

\* number of rows that calls in flight may still insert
PendingInserts ==
  Cardinality({q \in Procs : pc[q] \in {"c_validate", "c_save"}})

\* a createDelivery call arrives and suspends in validateUserRole (84-88)
BeginCreate(p, customerIdx, driverIdx) ==
  /\ CanBegin(p)
  /\ Len(store) + PendingInserts < MaxDeliveries
  /\ Start(p, "c_validate", [op |-> "createDelivery",
              customerIdx |-> customerIdx, driverIdx |-> driverIdx], NoLocal)
  /\ UNCHANGED <<store, events, now>>

\* validateUserRole settles (88); on success the entity is built and its
\* save is issued (90-93)
CreateValidate(p) ==
  /\ pc[p] = "c_validate"
  /\ LET v == validateUserRole(args[p].customerIdx, args[p].driverIdx)
     IN  IF Threw(v)
         THEN Finish(p, v.error)
         ELSE Goto(p, "c_save",
                   [customer |-> v.customer, driver |-> v.driver,
                    delivery |-> newDelivery(v.customer, v.driver)])
  /\ UNCHANGED <<store, events, now>>

\* the store inserts the row (93)
CreateSave(p) ==
  /\ pc[p] = "c_save"
  /\ LET created == insertedRow(store, local[p].delivery)
     IN  /\ store' = Append(store, created)
         /\ Goto(p, "c_emit",
                 [customer |-> local[p].customer, driver |-> local[p].driver,
                  createdDelivery |-> created])
  /\ UNCHANGED <<events, now>>

\* the call resumes after the save and emits to the driver's group (95-101)
CreateEmit(p) ==
  /\ pc[p] = "c_emit"
  /\ events' = Append(events, createEvent(local[p].customer, local[p].driver,
                                          local[p].createdDelivery))
  /\ Finish(p, Resolved)
  /\ UNCHANGED <<store, now>>

(* -------------------------- createDeliveries -------------------------- *)
\* a createDeliveries call is dispatched with its batch; the loop is at its
\* first entry (104-109)
BeginBatch(p, deliveries) ==
  /\ CanBegin(p)
  /\ Len(store) + Len(deliveries) <= MaxDeliveries
  /\ Start(p, "b_validate", [op |-> "createDeliveries",
              deliveries |-> deliveries], [i |-> 1])
  /\ UNCHANGED <<store, events, now>>

\* a loop that skips an entry whose validation fails and goes on
BatchValidate_skipInvalid(p) ==
  /\ pc[p] = "b_validate"
  /\ LET i == local[p].i
     IN  IF i > Len(args[p].deliveries)
         THEN Finish(p, Resolved)
         ELSE LET v == validateUserRole(args[p].deliveries[i].customerIdx,
                                        args[p].deliveries[i].driverIdx)
              IN  IF Threw(v)
                  THEN Goto(p, "b_validate", [i |-> i + 1])
                  ELSE Goto(p, "b_save",
                            [i |-> i, customer |-> v.customer,
                             driver |-> v.driver,
                             delivery |-> newDelivery(v.customer, v.driver)])
  /\ UNCHANGED <<store, events, now>>

\* the loop head (109): past the last entry the call returns; else
\* validateUserRole of entry i settles (111): it throws out of the loop and
\* the call, or the entity is built and its save is issued (113-116)
BatchValidate(p) ==
  /\ pc[p] = "b_validate"
  /\ LET i == local[p].i
     IN  IF i > Len(args[p].deliveries)
         THEN Finish(p, Resolved)
         ELSE LET v == validateUserRole(args[p].deliveries[i].customerIdx,
                                        args[p].deliveries[i].driverIdx)
              IN  IF Threw(v)
                  THEN Finish(p, v.error)
                  ELSE Goto(p, "b_save",
                            [i |-> i, customer |-> v.customer,
                             driver |-> v.driver,
                             delivery |-> newDelivery(v.customer, v.driver)])
  /\ UNCHANGED <<store, events, now>>

\* the store inserts the row of entry i (116)
BatchSave(p) ==
  /\ pc[p] = "b_save"
  /\ LET created == insertedRow(store, local[p].delivery)
     IN  /\ store' = Append(store, created)
         /\ Goto(p, "b_emit",
                 [i |-> local[p].i, customer |-> local[p].customer,
                  driver |-> local[p].driver, createdDelivery |-> created])
  /\ UNCHANGED <<events, now>>

\* the loop going on to the next entry without emitting
BatchEmit_noEmit(p) ==
  /\ pc[p] = "b_emit"
  /\ events' = events
  /\ Goto(p, "b_validate", [i |-> local[p].i + 1])
  /\ UNCHANGED <<store, now>>

\* the call resumes after the save, emits the event of entry i to its
\* driver's group (118-124) and goes on to the next entry (109)
BatchEmit(p) ==
  /\ pc[p] = "b_emit"
  /\ events' = Append(events, createEvent(local[p].customer, local[p].driver,
                                          local[p].createdDelivery))
  /\ Goto(p, "b_validate", [i |-> local[p].i + 1])
  /\ UNCHANGED <<store, now>>

(* ---------------------------- endDelivery ----------------------------- *)
\* endDelivery without the check for a completed delivery
endDeliveryCheck_noConflict(delivery, driverIdx) ==
  IF delivery = Undefined THEN HttpError(404, "no such delivery")
  ELSE IF delivery.driverIdx # driverIdx
  THEN HttpError(403, "not the driver's own delivery")
  ELSE Null

\* endDelivery without the check of the driver
endDeliveryCheck_noForbidden(delivery, driverIdx) ==
  IF delivery = Undefined THEN HttpError(404, "no such delivery")
  ELSE IF delivery.endTime # Null
  THEN HttpError(409, "delivery already completed")
  ELSE Null

\* endDelivery checking for a completed delivery before it checks the driver
endDeliveryCheck_conflictFirst(delivery, driverIdx) ==
  IF delivery = Undefined THEN HttpError(404, "no such delivery")
  ELSE IF delivery.endTime # Null
  THEN HttpError(409, "delivery already completed")
  ELSE IF delivery.driverIdx # driverIdx
  THEN HttpError(403, "not the driver's own delivery")
  ELSE Null

\* the checks of lines 135-145 on the looked-up delivery: the error thrown,
\* or Null when all pass
endDeliveryCheck(delivery, driverIdx) ==
  IF delivery = Undefined THEN HttpError(404, "no such delivery")
  ELSE IF delivery.driverIdx # driverIdx
  THEN HttpError(403, "not the driver's own delivery")
  ELSE IF delivery.endTime # Null
  THEN HttpError(409, "delivery already completed")
  ELSE Null

\* the mutation of lines 147-148
completed(delivery, t, image) ==
  [delivery EXCEPT !.endTime = Date(t), !.image = Str(image)]

\* an endDelivery call arrives and suspends in getDelivery (128-134)
BeginEnd(p, driverIdx, deliveryIdx, image) ==
  /\ CanBegin(p)
  /\ Start(p, "e_find", [op |-> "endDelivery", driverIdx |-> driverIdx,
              deliveryIdx |-> deliveryIdx, image |-> image], NoLocal)
  /\ UNCHANGED <<store, events, now>>

\* the lookup settles (134); the checks run, the clock is read, the entity
\* is mutated and its save is issued (135-150)
EndFind(p) ==
  /\ pc[p] = "e_find"
  /\ LET delivery == findOne(store, args[p].deliveryIdx)
         err == endDeliveryCheck(delivery, args[p].driverIdx)
     IN  IF err # Null
         THEN Finish(p, err)
         ELSE Goto(p, "e_save",
                   [delivery |-> completed(delivery, now, args[p].image)])
  /\ UNCHANGED <<store, events, now>>

\* the store writes the entity (150)
EndSave(p) ==
  /\ pc[p] = "e_save"
  /\ store' = saveExisting(store, local[p].delivery)
  /\ Finish(p, Resolved)
  /\ UNCHANGED <<events, now>>

(* ------------------------ orderDeliveryRequest ------------------------ *)
\* Array.prototype.includes
includes(arr, x) == \E k \in DOMAIN arr : arr[k] = x

\* the duplicate scan of lines 158-171 from entry i on, with the two
\* arrays of values seen so far: the error thrown, or Null
RECURSIVE duplicateScan(_, _, _, _)
duplicateScan(orders, i, orderNumCheckDuplicate, deliveryCheckDuplicate) ==
  IF i > Len(orders) THEN Null
  ELSE IF includes(orderNumCheckDuplicate, orders[i].endOrderNumber)
  THEN HttpError(400, "duplicate order number")
  ELSE IF includes(deliveryCheckDuplicate, orders[i].deliveryIdx)
  THEN HttpError(400, "duplicate delivery")
  ELSE duplicateScan(orders, i + 1,
                     Append(orderNumCheckDuplicate, orders[i].endOrderNumber),
                     Append(deliveryCheckDuplicate, orders[i].deliveryIdx))

\* the scan without the check of the order numbers
checkDuplicate_deliveryOnly(orders) ==
  IF \E i, j \in DOMAIN orders :
       i < j /\ orders[i].deliveryIdx = orders[j].deliveryIdx
  THEN HttpError(400, "duplicate delivery")
  ELSE Null

\* the scan without the check of the delivery ids
checkDuplicate_orderOnly(orders) ==
  IF \E i, j \in DOMAIN orders :
       i < j /\ orders[i].endOrderNumber = orders[j].endOrderNumber
  THEN HttpError(400, "duplicate order number")
  ELSE Null

\* the check as two passes: all order numbers first, then all deliveries
checkDuplicate_twoPasses(orders) ==
  IF \E i, j \in DOMAIN orders :
       i < j /\ orders[i].endOrderNumber = orders[j].endOrderNumber
  THEN HttpError(400, "duplicate order number")
  ELSE IF \E i, j \in DOMAIN orders :
            i < j /\ orders[i].deliveryIdx = orders[j].deliveryIdx
  THEN HttpError(400, "duplicate delivery")
  ELSE Null

\* lines 158-171
checkDuplicate(orders) == duplicateScan(orders, 1, <<>>, <<>>)

\* the pass throwing NotFound for a delivery that does not resolve
RECURSIVE orderPass_throwOnMissing(_, _, _, _, _)
orderPass_throwOnMissing(deliveries, orders, driverIdx, i, saveDeliveries) ==
  IF i > Len(deliveries) THEN [saveDeliveries |-> saveDeliveries]
  ELSE IF deliveries[i] = Undefined
  THEN [error |-> HttpError(404, "no such delivery")]
  ELSE IF deliveries[i].driverIdx # driverIdx
  THEN [error |-> HttpError(403, "not the driver's own delivery")]
  ELSE orderPass_throwOnMissing(deliveries, orders, driverIdx, i + 1,
         Append(saveDeliveries,
                [deliveries[i] EXCEPT
                   !.endOrderNumber = Num(orders[i].endOrderNumber)]))

\* the pass of lines 178-192 from entry i on: the error thrown, or the
\* array of mutated deliveries to save
RECURSIVE orderPass(_, _, _, _, _)
orderPass(deliveries, orders, driverIdx, i, saveDeliveries) ==
  IF i > Len(deliveries) THEN [saveDeliveries |-> saveDeliveries]
  ELSE IF deliveries[i] = Undefined
  THEN orderPass(deliveries, orders, driverIdx, i + 1, saveDeliveries)
  ELSE IF deliveries[i].driverIdx # driverIdx
  THEN [error |-> HttpError(403, "not the driver's own delivery")]
  ELSE orderPass(deliveries, orders, driverIdx, i + 1,
         Append(saveDeliveries,
                [deliveries[i] EXCEPT
                   !.endOrderNumber = Num(orders[i].endOrderNumber)]))

\* deliveryRepository.save(array): every entity is written, as one batch
RECURSIVE saveAll(_, _)
saveAll(rows, entities) ==
  IF entities = <<>> THEN rows
  ELSE saveAll(saveExisting(rows, Head(entities)), Tail(entities))

\* a lookup of Promise.all that has not settled yet
Unsettled == [type |-> "unsettled"]

\* an orderDeliveryRequest call is dispatched with its arguments (153-156)
BeginOrder(p, driverIdx, orders) ==
  /\ CanBegin(p)
  /\ Start(p, "o_scan", [op |-> "orderDeliveryRequest",
              driverIdx |-> driverIdx, orders |-> orders], NoLocal)
  /\ UNCHANGED <<store, events, now>>

\* the body runs to its first await: the duplicate scan (158-171) throws,
\* or all lookups are issued (173-176)
OrderScan(p) ==
  /\ pc[p] = "o_scan"
  /\ LET err == checkDuplicate(args[p].orders)
     IN  IF err # Null
         THEN Finish(p, err)
         ELSE Goto(p, "o_find",
                   [deliveries |-> [i \in DOMAIN args[p].orders |-> Unsettled]])
  /\ UNCHANGED <<store, events, now>>

\* lookups collected in the order in which they settle
OrderFind_inCompletionOrder(p, i) ==
  /\ pc[p] = "o_find"
  /\ i \in DOMAIN local[p].deliveries
  /\ \E k \in DOMAIN local[p].deliveries :
       /\ local[p].deliveries[k] = Unsettled
       /\ \A j \in 1..(k - 1) : local[p].deliveries[j] # Unsettled
       /\ Cardinality({j \in DOMAIN local[p].deliveries :
                         local[p].deliveries[j] # Unsettled}) < Len(local[p].deliveries)
       /\ Goto(p, "o_find",
               [deliveries |-> [local[p].deliveries EXCEPT
                   ![k] = findOne(store, args[p].orders[i].deliveryIdx)]])
  /\ UNCHANGED <<store, events, now>>

\* lookup i of Promise.all settles (175), in any order
OrderFind(p, i) ==
  /\ pc[p] = "o_find"
  /\ i \in DOMAIN local[p].deliveries
  /\ local[p].deliveries[i] = Unsettled
  /\ Goto(p, "o_find",
          [deliveries |-> [local[p].deliveries EXCEPT
              ![i] = findOne(store, args[p].orders[i].deliveryIdx)]])
  /\ UNCHANGED <<store, events, now>>

\* a pass that saves each delivery of the caller as it goes, up to the
\* entry that throws
OrderPass_saveAsItGoes(p) ==
  /\ pc[p] = "o_find"
  /\ \A i \in DOMAIN local[p].deliveries : local[p].deliveries[i] # Unsettled
  /\ LET ds == local[p].deliveries
         r == orderPass(ds, args[p].orders, args[p].driverIdx, 1, <<>>)
         k == CHOOSE i \in DOMAIN ds :
                /\ ds[i] # Undefined /\ ds[i].driverIdx # args[p].driverIdx
                /\ \A j \in 1..(i - 1) :
                     ds[j] = Undefined \/ ds[j].driverIdx = args[p].driverIdx
         before == orderPass(SubSeq(ds, 1, k - 1), args[p].orders,
                             args[p].driverIdx, 1, <<>>)
     IN  IF Threw(r)
         THEN /\ store' = saveAll(store, before.saveDeliveries)
              /\ Finish(p, r.error)
         ELSE /\ store' = store
              /\ Goto(p, "o_save", [saveDeliveries |-> r.saveDeliveries])
  /\ UNCHANGED <<events, now>>

\* Promise.all has settled: the pass runs (178-192) and the batched save
\* is issued (194)
OrderPass(p) ==
  /\ pc[p] = "o_find"
  /\ \A i \in DOMAIN local[p].deliveries : local[p].deliveries[i] # Unsettled
  /\ LET r == orderPass(local[p].deliveries, args[p].orders,
                        args[p].driverIdx, 1, <<>>)
     IN  IF Threw(r)
         THEN Finish(p, r.error)
         ELSE Goto(p, "o_save", [saveDeliveries |-> r.saveDeliveries])
  /\ UNCHANGED <<store, events, now>>

\* the store writes the batch (194)
OrderSave(p) ==
  /\ pc[p] = "o_save"
  /\ store' = saveAll(store, local[p].saveDeliveries)
  /\ Finish(p, Resolved)
  /\ UNCHANGED <<events, now>>

(* ------------------------ DriverEventListener ------------------------- *)
\* DriverEvent.SEND_DRIVER_LOCATION
SEND_DRIVER_LOCATION == "SEND_DRIVER_LOCATION"

\* tokens a handshake may carry; Undefined when the query has none
Tokens == {Str("bad"), Str("noidx"), Str("t1"), Str("t3"), Undefined}

\* verifyToken(token): the decoded claims, or the error it rejects with
verifyToken(token) ==
  IF token = Str("t1") THEN [decoded |-> [idx |-> 1, iat |-> 0]]
  ELSE IF token = Str("t3") THEN [decoded |-> [idx |-> 3, iat |-> 0]]
  ELSE IF token = Str("noidx") THEN [decoded |-> [iat |-> 0]]
  ELSE [error |-> "JsonWebTokenError"]

\* decoded[key] (214): the claim, or undefined when the mapping has none
claim(decoded, key) ==
  IF key \in DOMAIN decoded THEN Num(decoded[key]) ELSE Undefined

\* a socket whose listen() has not been called yet
NewSocket ==
  [state |-> "new", token |-> Undefined, userIdx |-> Undefined,
   rooms |-> {}, handlers |-> {}, received |-> {}]

\* a try block that joins every connection to the group of user 1
authenticated_sharedGroup(socket, decoded) ==
  LET idx == claim(decoded, "idx")
  IN  [socket EXCEPT !.state = "listening", !.userIdx = idx,
                     !.rooms = @ \cup {UserGroup(Num(1))},
                     !.handlers = @ \cup {SEND_DRIVER_LOCATION}]

\* the try block after verifyToken resolved (214-221)
authenticated(socket, decoded) ==
  LET idx == claim(decoded, "idx")
  IN  [socket EXCEPT !.state = "listening", !.userIdx = idx,
                     !.rooms = @ \cup {UserGroup(idx)},
                     !.handlers = @ \cup {SEND_DRIVER_LOCATION}]

\* a catch block that only logs
rejected_logOnly(socket) ==
  [socket EXCEPT !.state = "listening"]

\* the catch block (223-226): socket.disconnect() leaves every room
rejected(socket) ==
  [socket EXCEPT !.state = "disconnected", !.rooms = {}]

\* a connection arrives: listen reads the token and suspends in
\* verifyToken (209-213)
Connect(c, token) ==
  /\ sockets[c].state = "new"
  /\ sockets' = [sockets EXCEPT ![c] =
        [@ EXCEPT !.state = "verifying", !.token = token]]
  /\ UNCHANGED sink

\* verifyToken settles (213): the try block goes on, or the catch block runs
VerifySettle(c) ==
  /\ sockets[c].state = "verifying"
  /\ LET v == verifyToken(sockets[c].token)
     IN  sockets' = [sockets EXCEPT ![c] =
           IF Threw(v) THEN rejected(@) ELSE authenticated(@, v.decoded)]
  /\ UNCHANGED sink

\* driverEventHandler.sendDriverLocation(socket, body): forwards the bound
\* identity and the body to the location sink
sendDriverLocation(socket, body) ==
  sink \cup {[userIdx |-> socket.userIdx, body |-> body]}

\* the peer emits SEND_DRIVER_LOCATION on a live connection: the registered
\* handler runs (220-221); without one the event is dropped
Report(c, body) ==
  /\ sockets[c].state \in {"verifying", "listening"}
  /\ sink' = IF SEND_DRIVER_LOCATION \in sockets[c].handlers
             THEN sendDriverLocation(sockets[c], body)
             ELSE sink
  /\ UNCHANGED sockets

\* namespace.in(group).emit(event, payload) (96-101): the transport hands the
\* event to every connection that is in the group at that moment
namespaceEmit(socks, e) ==
  [c \in Conns |->
     IF e.group \in socks[c].rooms
     THEN [socks[c] EXCEPT !.received = @ \cup {e}]
     ELSE socks[c]]

\* the emit of createDelivery (95-101) with its delivery to the connections
CreateEmitToGroup(p) ==
  /\ CreateEmit(p)
  /\ sockets' = namespaceEmit(sockets, events'[Len(events')])
  /\ UNCHANGED sink

(* --------------------------- specifications --------------------------- *)
\* batches an orderDeliveryRequest may carry
Order == [deliveryIdx : DeliveryIdxs, endOrderNumber : OrderNumbers]
Batches == UNION {[1..n -> Order] : n \in 0..MaxBatch}

\* the table after createDelivery({customerIdx: 2, driverIdx: 1}) and
\* createDelivery({customerIdx: 2, driverIdx: 3}) have returned
SeedStore ==
  << insertedRow(<<>>, newDelivery(getUser(2), getUser(1))),
     insertedRow(<<Null>>, newDelivery(getUser(2), getUser(3))) >>

\* the events those two calls emitted
SeedEvents ==
  << createEvent(getUser(2), getUser(1), SeedStore[1]),
     createEvent(getUser(2), getUser(3), SeedStore[2]) >>

InitWith(rows, emitted) ==
  /\ store = rows
  /\ events = emitted
  /\ now = 1
  /\ pc = [p \in Procs |-> "idle"]
  /\ args = [p \in Procs |-> NoArgs]
  /\ local = [p \in Procs |-> NoLocal]
  /\ result = [p \in Procs |-> NoResult]
  /\ sockets = [c \in Conns |-> NewSocket]
  /\ sink = {}

Init == InitWith(<<>>, <<>>)
InitSeeded == InitWith(SeedStore, SeedEvents)

\* the one caller of the sequential specifications: it awaits each call
\* before it makes the next
Client == "p1"

\* concurrent endDelivery calls on the rows of two drivers
Next ==
  /\ UNCHANGED sockVars
  /\ \/ Tick
     \/ \E p \in Procs :
          \/ CanBegin(p) /\ \E d \in UserIdxs, i \in DeliveryIdxs, im \in Images :
               BeginEnd(p, d, i, im)
          \/ EndFind(p)
          \/ EndSave(p)

Spec == InitSeeded /\ [][Next]_vars

\* concurrent createDelivery calls on an empty table
NextCreate ==
  /\ UNCHANGED sockVars
  /\ \E p \in Procs :
       \/ CanBegin(p) /\ \E c \in UserIdxs, d \in UserIdxs : BeginCreate(p, c, d)
       \/ CreateValidate(p)
       \/ CreateSave(p)
       \/ CreateEmit(p)

SpecCreate == Init /\ [][NextCreate]_vars

\* createDelivery and endDelivery calls, one after the other
NextSeq ==
  /\ UNCHANGED sockVars
  /\ \/ Tick
     \/ CanBegin(Client) /\ \E c \in UserIdxs, d \in UserIdxs : BeginCreate(Client, c, d)
     \/ CreateValidate(Client)
     \/ CreateSave(Client)
     \/ CreateEmit(Client)
     \/ CanBegin(Client) /\ \E d \in UserIdxs, i \in DeliveryIdxs, im \in Images :
          BeginEnd(Client, d, i, im)
     \/ EndFind(Client)
     \/ EndSave(Client)

SpecSeq == Init /\ [][NextSeq]_vars

\* orderDeliveryRequest and endDelivery calls, one after the other, on the
\* rows of two drivers; the lookups of a call settle in any order
NextOrder ==
  /\ UNCHANGED sockVars
  /\ \/ CanBegin(Client) /\ \E d \in UserIdxs, o \in Batches : BeginOrder(Client, d, o)
     \/ OrderScan(Client)
     \/ \E i \in 1..MaxBatch : OrderFind(Client, i)
     \/ OrderPass(Client)
     \/ OrderSave(Client)
     \/ CanBegin(Client) /\ \E d \in UserIdxs, i \in DeliveryIdxs, im \in Images :
          BeginEnd(Client, d, i, im)
     \/ EndFind(Client)
     \/ EndSave(Client)

SpecOrder == InitSeeded /\ [][NextOrder]_vars

\* batches of at most one entry, for calls that run concurrently
ShortBatches == {o \in Batches : Len(o) <= 1}

\* the two callers of the concurrent specification
Orderer == "p1"
Ender == "p2"

\* orderDeliveryRequest calls of one caller running concurrently with the
\* endDelivery calls of another, on the rows of two drivers
NextRace ==
  /\ UNCHANGED sockVars
  /\ \/ CanBegin(Orderer) /\ \E d \in UserIdxs, o \in ShortBatches :
          BeginOrder(Orderer, d, o)
     \/ OrderScan(Orderer)
     \/ OrderFind(Orderer, 1)
     \/ OrderPass(Orderer)
     \/ OrderSave(Orderer)
     \/ CanBegin(Ender) /\ \E d \in UserIdxs, i \in DeliveryIdxs, im \in Images :
          BeginEnd(Ender, d, i, im)
     \/ EndFind(Ender)
     \/ EndSave(Ender)

SpecRace == InitSeeded /\ [][NextRace]_vars

\* batches one entry longer than the order numbers allow without a repeat
LongBatches == UNION {[1..n -> Order] : n \in 0..(MaxBatch + 1)}

\* orderDeliveryRequest calls with batches of every length, one after the
\* other
NextScan ==
  /\ UNCHANGED sockVars
  /\ \/ CanBegin(Client) /\ \E d \in UserIdxs, o \in LongBatches :
          BeginOrder(Client, d, o)
     \/ OrderScan(Client)
     \/ \E i \in 1..MaxBatch : OrderFind(Client, i)
     \/ OrderPass(Client)
     \/ OrderSave(Client)

SpecScan == InitSeeded /\ [][NextScan]_vars

\* batches a createDeliveries call may carry
Entry == [customerIdx : UserIdxs, driverIdx : UserIdxs]
EntryBatches == UNION {[1..n -> Entry] : n \in 0..MaxBatch}

\* createDeliveries calls, one after the other, on an empty table
NextBatch ==
  /\ UNCHANGED sockVars
  /\ \/ CanBegin(Client) /\ \E b \in EntryBatches : BeginBatch(Client, b)
     \/ BatchValidate(Client)
     \/ BatchSave(Client)
     \/ BatchEmit(Client)

SpecBatch == Init /\ [][NextBatch]_vars

\* connections being authenticated while createDelivery calls, one after
\* the other, emit to the groups
NextNotify ==
  \/ \E c \in Conns :
       /\ UNCHANGED svcVars
       /\ \/ \E t \in Tokens : Connect(c, t)
          \/ VerifySettle(c)
  \/ /\ UNCHANGED sockVars
     /\ \/ CanBegin(Client) /\ \E c \in UserIdxs, d \in UserIdxs :
             BeginCreate(Client, c, d)
        \/ CreateValidate(Client)
        \/ CreateSave(Client)
  \/ CreateEmitToGroup(Client)

SpecNotify == Init /\ [][NextNotify]_vars

\* connections being authenticated and reporting locations
NextSocket ==
  /\ UNCHANGED svcVars
  /\ \E c \in Conns :
       \/ \E t \in Tokens : Connect(c, t)
       \/ VerifySettle(c)
       \/ \E b \in Bodies : Report(c, b)

SpecSocket == Init /\ [][NextSocket]_vars

(* ------------------------------ claims -------------------------------- *)
\* call p settles its promise in this step
Settles(p) == pc[p] # "idle" /\ pc'[p] = "idle"

\* r is an HttpError with status st
IsError(r, st) == r.kind = "HttpError" /\ r.status = st

\* C1: endDelivery calls run one after the other by the delivery's assigned
\* driver: the call made on the open delivery succeeds and stores its
\* timestamp and image; every call made once the delivery is completed fails
\* with Conflict (409) and leaves the store as it was.
C1_EndTwiceInSequence ==
  [][\A p \in Procs :
       (args[p].op = "endDelivery" /\ Settles(p)) =>
         LET d == args[p].deliveryIdx
             delivery == findOne(store, d)
         IN  (delivery # Undefined /\ delivery.driverIdx = args[p].driverIdx) =>
               IF delivery.endTime = Null
               THEN /\ result'[p] = Resolved
                    /\ store'[d].endTime \in {Date(t) : t \in 1..now}
                    /\ store'[d].image = Str(args[p].image)
               ELSE /\ IsError(result'[p], 409)
                    /\ store' = store]_vars

\* a second call has returned Conflict on a completed delivery
C1_Witness ==
  \E p \in Procs, d \in DOMAIN store :
    IsError(result[p], 409) /\ store[d].endTime # Null

\* C2: under every interleaving of endDelivery calls the completion
\* timestamp and image of a delivery are written once: a call succeeds only
\* on a delivery that is still open in the store, and a completed row keeps
\* its timestamp and image.
C2_CompletionWrittenOnce ==
  [][/\ \A p \in Procs :
          (args[p].op = "endDelivery" /\ pc[p] = "e_save" /\ Settles(p)) =>
            store[args[p].deliveryIdx].endTime = Null
     /\ \A d \in DOMAIN store :
          store[d].endTime # Null =>
            /\ store'[d].endTime = store[d].endTime
            /\ store'[d].image = store[d].image]_vars

\* C3: createDelivery with both users resolved and a role mismatch on either
\* side fails with InvalidAssignment (400), persists nothing and emits
\* nothing; no row of the table ever binds a wrong role.
C3_RoleMismatchRejected ==
  [][/\ \A p \in Procs :
          (/\ args[p].op = "createDelivery"
           /\ pc[p] = "c_validate" /\ pc'[p] # "c_validate"
           /\ getUser(args[p].driverIdx) # Undefined
           /\ getUser(args[p].customerIdx) # Undefined
           /\ \/ getUser(args[p].driverIdx).role # DRIVER
              \/ getUser(args[p].customerIdx).role # CUSTOMER)
          => /\ IsError(result'[p], 400)
             /\ pc'[p] = "idle"
             /\ store' = store
             /\ events' = events
     /\ \A i \in DOMAIN store' :
          /\ getUser(store'[i].driverIdx).role = DRIVER
          /\ getUser(store'[i].customerIdx).role = CUSTOMER]_vars

\* a call has been rejected for its roles and the table is still empty
C3_Witness ==
  \E p \in Procs : IsError(result[p], 400) /\ store = <<>> /\ events = <<>>

\* C4: a successful createDelivery persists exactly one new row, bound to
\* the users of the request, and afterwards emits exactly one
\* CREATE_NEW_DELIVERY event, to the group "user-" + driver id, whose data is
\* the persisted row; nothing else persists or emits.
C4_CreatePersistsThenEmits ==
  [][/\ \A p \in Procs :
          /\ (pc[p] = "c_save" /\ pc'[p] # "c_save") =>
               /\ Len(store') = Len(store) + 1
               /\ SubSeq(store', 1, Len(store)) = store
               /\ store'[Len(store')].idx = Len(store')
               /\ store'[Len(store')].driverIdx = args[p].driverIdx
               /\ store'[Len(store')].customerIdx = args[p].customerIdx
               /\ local'[p].createdDelivery = store'[Len(store')]
               /\ events' = events
          /\ (pc[p] = "c_emit" /\ pc'[p] # "c_emit") =>
               /\ result'[p] = Resolved
               /\ store' = store
               /\ Len(events') = Len(events) + 1
               /\ SubSeq(events', 1, Len(events)) = events
               /\ LET e == events'[Len(events')]
                  IN  /\ e.group = "user-" \o ToString(args[p].driverIdx)
                      /\ e.event = CREATE_NEW_DELIVERY
                      /\ e.payload.data = local[p].createdDelivery
                      /\ e.payload.data.idx \in DOMAIN store
                      /\ e.payload.data = store[e.payload.data.idx]
                      /\ e.payload.data.driverIdx = args[p].driverIdx
                      /\ e.payload.data.customerIdx = args[p].customerIdx
          /\ (Settles(p) /\ result'[p] = Resolved) => pc[p] = "c_emit"
     /\ store' # store => \E p \in Procs : pc[p] = "c_save" /\ pc'[p] = "c_emit"
     /\ events' # events => \E p \in Procs : pc[p] = "c_emit" /\ pc'[p] = "idle"
     /\ \A i, j \in DOMAIN events' :
          i # j => events'[i].payload.data.idx # events'[j].payload.data.idx
     /\ Len(events') + Cardinality({p \in Procs : pc'[p] = "c_emit"})
          = Len(store')]_vars

\* two calls have returned: two rows, and one event for each, to the group
\* of its driver
C4_Witness ==
  /\ \A p \in Procs : result[p] = Resolved
  /\ Len(store) = 2 /\ Len(events) = 2
  /\ \E i \in DOMAIN events :
       /\ events[i].group = "user-3"
       /\ events[i].payload.data.driverIdx = 3

\* two entries of the batch carry the same endOrderNumber
HasDuplicateOrderNumber(orders) ==
  \E i, j \in DOMAIN orders :
    i # j /\ orders[i].endOrderNumber = orders[j].endOrderNumber

\* two entries of the batch carry the same deliveryIdx
HasDuplicateDelivery(orders) ==
  \E i, j \in DOMAIN orders :
    i # j /\ orders[i].deliveryIdx = orders[j].deliveryIdx

\* C5: orderDeliveryRequest fails with BadRequest (400) for every batch in
\* which two entries carry the same endOrderNumber, whatever their delivery
\* ids, and the call changes no row of the store.
C5_DuplicateOrderNumberRejected ==
  [][\A p \in Procs :
       (args'[p].op = "orderDeliveryRequest" \/ args[p].op = "orderDeliveryRequest") =>
         /\ (pc[p] = "idle" /\ pc'[p] # "idle") => store' = store
         /\ (pc[p] = "o_scan" /\ pc'[p] # "o_scan"
             /\ HasDuplicateOrderNumber(args[p].orders)) =>
              /\ IsError(result'[p], 400)
              /\ pc'[p] = "idle"
              /\ store' = store]_vars

\* a batch was rejected for a repeated order number
C5_Witness ==
  \E p \in Procs : result[p] = HttpError(400, "duplicate order number")

\* C6: orderDeliveryRequest fails with BadRequest (400) for every batch in
\* which two entries carry the same deliveryIdx, whatever their order
\* numbers, and the call changes no row of the store.
C6_DuplicateDeliveryRejected ==
  [][\A p \in Procs :
       (args'[p].op = "orderDeliveryRequest" \/ args[p].op = "orderDeliveryRequest") =>
         /\ (pc[p] = "idle" /\ pc'[p] # "idle") => store' = store
         /\ (pc[p] = "o_scan" /\ pc'[p] # "o_scan"
             /\ HasDuplicateDelivery(args[p].orders)) =>
              /\ IsError(result'[p], 400)
              /\ pc'[p] = "idle"
              /\ store' = store]_vars

\* a batch was rejected for a repeated delivery (its order numbers distinct)
C6_Witness ==
  \E p \in Procs : result[p] = HttpError(400, "duplicate delivery")

\* C7: a batch without duplicates whose resolved deliveries all belong to
\* the caller succeeds even when some deliveryIdx resolves to nothing: no row
\* is created for such an entry, every resolved entry i has its
\* endOrderNumber set to orders[i].endOrderNumber and persisted, and nothing
\* else in the store changes.
C7_MissingDeliverySkipped ==
  [][\A p \in Procs :
       (args[p].op = "orderDeliveryRequest" /\ Settles(p) /\ pc[p] # "o_scan") =>
         LET orders == args[p].orders
             found(i) == findOne(store, orders[i].deliveryIdx)
         IN  (\A i \in DOMAIN orders :
                found(i) = Undefined \/ found(i).driverIdx = args[p].driverIdx)
             => /\ result'[p] = Resolved
                /\ DOMAIN store' = DOMAIN store
                /\ \A i \in DOMAIN orders :
                     found(i) # Undefined =>
                       store'[orders[i].deliveryIdx] =
                         [found(i) EXCEPT
                            !.endOrderNumber = Num(orders[i].endOrderNumber)]
                /\ \A d \in DOMAIN store :
                     (\A i \in DOMAIN orders : orders[i].deliveryIdx # d)
                       => store'[d] = store[d]]_vars

\* the pass of a batch has skipped an entry that resolves to nothing and
\* kept the caller's delivery for the save
C7_Witness ==
  \E p \in Procs :
    /\ pc[p] = "o_save"
    /\ \E i \in DOMAIN args[p].orders :
         findOne(store, args[p].orders[i].deliveryIdx) = Undefined
    /\ Len(local[p].saveDeliveries) >= 1

\* C8: endDelivery on an existing delivery assigned to another driver fails
\* with Forbidden (403) and changes no row of the store.
C8_ForeignDriverForbidden ==
  [][\A p \in Procs :
       (args[p].op = "endDelivery" /\ Settles(p)) =>
         LET delivery == findOne(store, args[p].deliveryIdx)
         IN  (delivery # Undefined /\ delivery.driverIdx # args[p].driverIdx) =>
               /\ IsError(result'[p], 403)
               /\ store' = store]_vars

\* a call by another driver was refused
C8_Witness ==
  \E p \in Procs : IsError(result[p], 403)

\* C9: a connection whose token fails verification never joins a group, has
\* no identity bound and no handler registered, and once verification has
\* settled it is disconnected.
C9_InvalidTokenDisconnected ==
  \A c \in Conns :
    (sockets[c].state # "new" /\ Threw(verifyToken(sockets[c].token))) =>
      /\ sockets[c].state \in {"verifying", "disconnected"}
      /\ sockets[c].rooms = {}
      /\ sockets[c].userIdx = Undefined
      /\ sockets[c].handlers = {}

\* a connection with a rejected token has been disconnected
C9_Witness ==
  \E c \in Conns :
    sockets[c].state = "disconnected" /\ sockets[c].token = Str("bad")

\* C10: a connection whose token verifies but carries no idx claim is
\* terminated and neither joins a group nor gets a location handler.
C10_MissingClaimRejected ==
  \A c \in Conns :
    LET v == verifyToken(sockets[c].token)
    IN  (/\ sockets[c].state \notin {"new", "verifying"}
         /\ ~Threw(v)
         /\ claim(v.decoded, "idx") = Undefined)
        => /\ sockets[c].state = "disconnected"
           /\ sockets[c].rooms = {}
           /\ sockets[c].handlers = {}

\* the entry names a user that does not resolve, or a user of the wrong role
InvalidEntry(entry) ==
  \/ getUser(entry.customerIdx) = Undefined
  \/ getUser(entry.driverIdx) = Undefined
  \/ getUser(entry.customerIdx).role # CUSTOMER
  \/ getUser(entry.driverIdx).role # DRIVER

\* the last n rows are the rows of the first n entries of the batch, in
\* input order, and the last n events are their CREATE_NEW_DELIVERY events,
\* each to the group of its driver, in the same order
EntriesDone(rows, emitted, deliveries, n) ==
  /\ Len(rows) >= n
  /\ Len(emitted) >= n
  /\ \A j \in 1..n :
       LET row == rows[Len(rows) - n + j]
           e == emitted[Len(emitted) - n + j]
       IN  /\ row.customerIdx = deliveries[j].customerIdx
           /\ row.driverIdx = deliveries[j].driverIdx
           /\ e.event = CREATE_NEW_DELIVERY
           /\ e.group = "user-" \o ToString(deliveries[j].driverIdx)
           /\ e.payload.data = row

\* C11: when createDeliveries reaches an entry k whose user does not resolve
\* or has the wrong role, the call fails there (404 or 400): the rows and
\* events of the entries before k stay persisted and emitted, the failing
\* step persists and emits nothing, the call makes no further step, and a
\* row or an event is only ever added for a valid entry the loop is at.
C11_BatchFailureKeepsEarlierEntries ==
  [][\A p \in Procs :
       (args[p].op = "createDeliveries") =>
         LET deliveries == args[p].deliveries
             k == local[p].i
         IN  /\ (pc[p] = "b_validate" /\ k <= Len(deliveries)
                 /\ InvalidEntry(deliveries[k])) =>
                  /\ pc'[p] = "idle"
                  /\ IsError(result'[p], 404) \/ IsError(result'[p], 400)
                  /\ store' = store
                  /\ events' = events
                  /\ EntriesDone(store', events', deliveries, k - 1)
                  /\ Len(store') = Len(events')
             /\ store' # store =>
                  /\ pc[p] = "b_save"
                  /\ ~InvalidEntry(deliveries[k])
                  /\ Len(store') = Len(store) + 1
             /\ events' # events =>
                  /\ pc[p] = "b_emit"
                  /\ ~InvalidEntry(deliveries[k])
                  /\ Len(events') = Len(events) + 1]_vars

\* the loop has persisted and notified entry 1 and is at an entry 2 that
\* names an unresolved user
C11_Witness ==
  \E p \in Procs :
    /\ args[p].op = "createDeliveries"
    /\ pc[p] = "b_validate"
    /\ local[p].i = 2
    /\ Len(args[p].deliveries) >= 2
    /\ InvalidEntry(args[p].deliveries[2])
    /\ EntriesDone(store, events, args[p].deliveries, 1)

\* C12: a createDeliveries call handles its entries one at a time in input
\* order: while it is at entry i the rows and events of entries 1..i-1, and
\* no others of the call, are there in input order; the row of entry i is
\* inserted, then its event is emitted, and only that emit moves the loop to
\* the validation of entry i+1; the call returns once the events of the
\* whole batch have been emitted in input order.
C12_BatchInInputOrder ==
  [][\A p \in Procs :
       (args[p].op = "createDeliveries") =>
         LET deliveries == args[p].deliveries
             i == local[p].i
         IN  /\ pc[p] \in {"b_validate", "b_save"} =>
                  EntriesDone(store, events, deliveries, i - 1)
             /\ pc[p] = "b_emit" =>
                  /\ EntriesDone(SubSeq(store, 1, Len(store) - 1), events,
                                 deliveries, i - 1)
                  /\ store[Len(store)] = local[p].createdDelivery
             /\ pc'[p] = "b_save" =>
                  /\ pc[p] = "b_validate"
                  /\ local'[p].i = i
                  /\ store' = store /\ events' = events
             /\ pc'[p] = "b_emit" =>
                  /\ pc[p] = "b_save"
                  /\ local'[p].i = i
                  /\ Len(store') = Len(store) + 1
                  /\ store'[Len(store')].customerIdx = deliveries[i].customerIdx
                  /\ store'[Len(store')].driverIdx = deliveries[i].driverIdx
                  /\ events' = events
             /\ pc'[p] = "b_validate" =>
                  /\ pc[p] = "b_emit"
                  /\ local'[p].i = i + 1
                  /\ store' = store
                  /\ events' = Append(events,
                       [group |-> "user-" \o ToString(deliveries[i].driverIdx),
                        event |-> CREATE_NEW_DELIVERY,
                        payload |-> [status |-> 200, data |-> store[Len(store)]]])
             /\ (Settles(p) /\ result'[p] = Resolved) =>
                  /\ pc[p] = "b_validate"
                  /\ i = Len(deliveries) + 1
                  /\ EntriesDone(store', events', deliveries, Len(deliveries))]_vars

\* the loop has run through a batch of two entries for different drivers:
\* both rows and both events are there in input order
C12_Witness ==
  \E p \in Procs :
    /\ args[p].op = "createDeliveries"
    /\ pc[p] = "b_validate"
    /\ Len(args[p].deliveries) = 2
    /\ local[p].i = 3
    /\ args[p].deliveries[1].driverIdx # args[p].deliveries[2].driverIdx
    /\ EntriesDone(store, events, args[p].deliveries, 2)

\* C13: every step that changes the stored endOrderNumber of a delivery is
\* the save of an orderDeliveryRequest call made by the delivery's assigned
\* driver; no other call and no other operation changes it.
C13_OrderNumberSetByOwnDriverReorder ==
  [][\A d \in DOMAIN store :
       store'[d].endOrderNumber # store[d].endOrderNumber =>
         \E p \in Procs :
           /\ args[p].op = "orderDeliveryRequest"
           /\ pc[p] = "o_save"
           /\ Settles(p)
           /\ args[p].driverIdx = store[d].driverIdx]_vars

\* C14: an orderDeliveryRequest whose batch holds a resolved delivery of
\* another driver fails with Forbidden (403) and persists nothing: no step
\* of the call before its save changes the store, and the failing call
\* never reaches the save, so the deliveries of the caller earlier in the
\* batch keep their stored endOrderNumber.
C14_ForbiddenPersistsNothing ==
  [][\A p \in Procs :
       (args[p].op = "orderDeliveryRequest") =>
         LET orders == args[p].orders
             found(i) == findOne(store, orders[i].deliveryIdx)
         IN  /\ pc[p] \in {"o_scan", "o_find"} => store' = store
             /\ (Settles(p) /\ IsError(result'[p], 403)) =>
                  /\ pc[p] = "o_find"
                  /\ \A d \in DOMAIN store :
                       store'[d].endOrderNumber = store[d].endOrderNumber
             /\ (pc[p] = "o_find" /\ pc'[p] # "o_find"
                 /\ \E i \in DOMAIN orders :
                      found(i) # Undefined
                      /\ found(i).driverIdx # args[p].driverIdx) =>
                  /\ pc'[p] = "idle"
                  /\ IsError(result'[p], 403)
                  /\ store' = store]_vars

\* the lookups of a batch have settled: its first entry is a delivery of the
\* caller, its second a delivery of another driver
C14_Witness ==
  \E p \in Procs :
    /\ args[p].op = "orderDeliveryRequest"
    /\ pc[p] = "o_find"
    /\ Len(local[p].deliveries) = 2
    /\ \A i \in 1..2 : local[p].deliveries[i] \notin {Unsettled, Undefined}
    /\ local[p].deliveries[1].driverIdx = args[p].driverIdx
    /\ local[p].deliveries[2].driverIdx # args[p].driverIdx

\* C15: endDelivery checks NotFound, then Forbidden, then Conflict: on a
\* delivery that does not resolve it fails with 404; on a delivery of another
\* driver it fails with 403, also when the delivery is already completed;
\* 409 is thrown only to the assigned driver of a completed delivery.
C15_EndDeliveryCheckOrder ==
  [][\A p \in Procs :
       (args[p].op = "endDelivery" /\ pc[p] = "e_find" /\ pc'[p] # "e_find") =>
         LET delivery == findOne(store, args[p].deliveryIdx)
         IN  /\ delivery = Undefined => IsError(result'[p], 404)
             /\ (delivery # Undefined
                 /\ delivery.driverIdx # args[p].driverIdx) =>
                  IsError(result'[p], 403)
             /\ IsError(result'[p], 409) =>
                  /\ delivery # Undefined
                  /\ delivery.driverIdx = args[p].driverIdx
                  /\ delivery.endTime # Null]_vars

\* a call by another driver is about to be checked against a delivery that
\* is already completed
C15_Witness ==
  \E p \in Procs :
    /\ args[p].op = "endDelivery"
    /\ pc[p] = "e_find"
    /\ args[p].deliveryIdx \in DOMAIN store
    /\ store[args[p].deliveryIdx].endTime # Null
    /\ store[args[p].deliveryIdx].driverIdx # args[p].driverIdx
    /\ getUser(args[p].driverIdx) # Undefined

\* entry j of the batch repeats the endOrderNumber / the deliveryIdx of an
\* earlier entry
RepeatsOrderNumber(orders, j) ==
  \E i \in 1..(j - 1) : orders[i].endOrderNumber = orders[j].endOrderNumber
RepeatsDelivery(orders, j) ==
  \E i \in 1..(j - 1) : orders[i].deliveryIdx = orders[j].deliveryIdx

\* C16: the duplicate check of orderDeliveryRequest is one scan in input
\* order over both fields: the call fails for the first entry that repeats
\* the endOrderNumber or the deliveryIdx of an earlier entry, with the
\* duplicate-order failure if that entry repeats an endOrderNumber and the
\* duplicate-delivery failure otherwise; it fails before any lookup is
\* issued, and lookups are issued only for a batch without such an entry.
C16_FirstDuplicateInInputOrder ==
  [][\A p \in Procs :
       (args[p].op = "orderDeliveryRequest"
        /\ pc[p] = "o_scan" /\ pc'[p] # "o_scan") =>
         LET orders == args[p].orders
             offending == {j \in DOMAIN orders :
                             \/ RepeatsOrderNumber(orders, j)
                             \/ RepeatsDelivery(orders, j)}
         IN  IF offending = {}
             THEN /\ pc'[p] = "o_find"
                  /\ result'[p] = Pending
                  /\ \A i \in DOMAIN orders : local'[p].deliveries[i] = Unsettled
             ELSE LET first == CHOOSE j \in offending :
                                 \A k \in offending : j <= k
                  IN  /\ pc'[p] = "idle"
                      /\ store' = store
                      /\ result'[p] =
                           IF RepeatsOrderNumber(orders, first)
                           THEN HttpError(400, "duplicate order number")
                           ELSE HttpError(400, "duplicate delivery")]_vars

\* the scan is about to run on a batch whose second entry repeats only the
\* delivery of the first and whose third entry repeats an order number
C16_Witness ==
  \E p \in Procs :
    /\ args[p].op = "orderDeliveryRequest"
    /\ pc[p] = "o_scan"
    /\ Len(args[p].orders) = 3
    /\ RepeatsDelivery(args[p].orders, 2)
    /\ ~RepeatsOrderNumber(args[p].orders, 2)
    /\ RepeatsOrderNumber(args[p].orders, 3)

\* C17: whatever the order in which the lookups of an orderDeliveryRequest
\* settle, the pass sees at position i the delivery of orders[i]: it fails
\* with 403 exactly when some resolved delivery belongs to another driver,
\* and otherwise hands to the save, in input order, every resolved delivery
\* with the endOrderNumber of its own entry.
C17_LookupOrderIrrelevant ==
  [][\A p \in Procs :
       (args[p].op = "orderDeliveryRequest"
        /\ pc[p] = "o_find" /\ pc'[p] # "o_find") =>
         LET orders == args[p].orders
             found(i) == findOne(store, orders[i].deliveryIdx)
             resolved == {i \in DOMAIN orders : found(i) # Undefined}
             rank(i) == Cardinality({j \in resolved : j <= i})
         IN  /\ \A i \in DOMAIN orders : local[p].deliveries[i] = found(i)
             /\ IF \E i \in resolved : found(i).driverIdx # args[p].driverIdx
                THEN pc'[p] = "idle" /\ IsError(result'[p], 403)
                ELSE /\ pc'[p] = "o_save"
                     /\ Len(local'[p].saveDeliveries) = Cardinality(resolved)
                     /\ \A i \in resolved :
                          local'[p].saveDeliveries[rank(i)] =
                            [found(i) EXCEPT
                               !.endOrderNumber = Num(orders[i].endOrderNumber)]]_vars

\* the lookup of the second entry has settled before the lookup of the
\* first, and it resolved to a delivery of the caller
C17_Witness ==
  \E p \in Procs :
    /\ args[p].op = "orderDeliveryRequest"
    /\ pc[p] = "o_find"
    /\ Len(local[p].deliveries) = 2
    /\ local[p].deliveries[1] = Unsettled
    /\ local[p].deliveries[2] \notin {Unsettled, Undefined}
    /\ local[p].deliveries[2].driverIdx = args[p].driverIdx

\* C18: a location report reaches the handler only on an authenticated
\* connection, one whose token was verified and that has an identity bound:
\* every report added to the sink comes from such a connection and carries
\* its identity, and a connection whose verification is pending or that was
\* closed has no handler.
C18_ReportOnlyWhenAuthenticated ==
  [][/\ \A r \in sink' \ sink :
          \E c \in Conns :
            /\ sockets[c].state = "listening"
            /\ ~Threw(verifyToken(sockets[c].token))
            /\ sockets[c].userIdx # Undefined
            /\ r.userIdx = sockets[c].userIdx
     /\ \A c \in Conns :
          sockets[c].state \in {"new", "verifying", "disconnected"} =>
            sockets[c].handlers = {}]_vars

\* C19: completion is terminal under concurrent endDelivery and
\* orderDeliveryRequest calls: a stored delivery that has its completion
\* timestamp keeps a timestamp and its image in every later state.
C19_CompletionTerminal ==
  [][\A d \in DOMAIN store :
       store[d].endTime # Null =>
         /\ store'[d].endTime # Null
         /\ store'[d].image = store[d].image]_vars

\* C20: a connection is in at most one group; it is in one only once its
\* token has been verified, and that group is "user-" followed by the
\* identity bound to it from the token's idx claim; so every event a
\* connection has received is a CREATE_NEW_DELIVERY whose delivery is
\* assigned to the driver the connection is authenticated as.
C20_GroupIsBoundIdentity ==
  \A c \in Conns :
    LET v == verifyToken(sockets[c].token)
        bound == sockets[c].userIdx
    IN  /\ Cardinality(sockets[c].rooms) <= 1
        /\ \A g \in sockets[c].rooms :
             /\ sockets[c].state = "listening"
             /\ ~Threw(v)
             /\ bound = claim(v.decoded, "idx")
             /\ g = "user-" \o (IF bound = Undefined THEN "undefined"
                                ELSE ToString(bound.num))
        /\ \A e \in sockets[c].received :
             /\ e.event = CREATE_NEW_DELIVERY
             /\ e.group \in sockets[c].rooms
             /\ bound # Undefined
             /\ e.payload.data.driverIdx = bound.num
             /\ e.payload.data.idx \in DOMAIN store
             /\ store[e.payload.data.idx].driverIdx = bound.num

\* of two authenticated connections, the one authenticated as driver 3 has
\* received the event of a delivery of driver 3 and the other one, not
\* authenticated as driver 3, has received nothing
C20_Witness ==
  \E c, o \in Conns :
    /\ sockets[c].state = "listening" /\ sockets[o].state = "listening"
    /\ sockets[c].userIdx = Num(3) /\ sockets[o].userIdx # Num(3)
    /\ \E e \in sockets[c].received : e.payload.data.driverIdx = 3
    /\ sockets[o].received = {}
    /\ \E i \in DOMAIN events : events[i].group = "user-3"

=============================================================================
